---- MODULE Spec2Model ----
(***************************************************************************)
(* A model of trade_journal.py: the TradeJournal class, its one mutable    *)
(* field self.df, load_data's cleaning of the CSV text and the aggregation *)
(* methods.  A text is a sequence of one-character strings.  A float is a  *)
(* record: [k |-> "num", n, d] is the exact value n / (d * Scale) (P&L     *)
(* amounts have d = 1, n counted in 1/Scale units), [k |-> "nan"] is NaN   *)
(* and [k |-> "err"] a failed conversion (the exception pandas raises).    *)
(* An optional value (Python's None) is a sequence of length 0 or 1.       *)
(***************************************************************************)
EXTENDS Integers, Sequences, FiniteSets, TLC

\* csv:     the content of the file at csv_path, a sequence of rows of cell texts
\* df:      self.df, None or the loaded frame (a sequence of rows)
\* err:     the exception the last call raised, "none" when it returned
\* result:  what the last call returned, printed or plotted; None when it raised
\* last_op: the method last called, "__init__" after construction
\* arg:     top_n of the last best_performing_days call, 0 otherwise
\* amount:  the decimal amount (in 1/Scale units) the file's P&L text was written
\*          from, for the round-trip inputs; 0 and unused otherwise
VARIABLES csv, df, err, result, last_op, arg, amount

vars == <<csv, df, err, result, last_op, arg, amount>>

\* ---------------------------------------------------------------- bounds
\* Most rows a CSV file of the model holds.
MaxRows == 3
\* Fraction digits an amount text carries; values are counted in 10^-FracDigits.
FracDigits == 2
\* Largest whole-currency amount of the round-trip inputs.
MaxDollars == 1100
\* Largest top_n passed to best_performing_days.
MaxTopN == 2

RECURSIVE Pow10(_)
Pow10(k) == IF k = 0 THEN 1 ELSE 10 * Pow10(k - 1)

Scale == Pow10(FracDigits)

\* ---------------------------------------------------------------- values
None == <<>>
Some(x) == <<x>>

Num(c) == [k |-> "num", n |-> c, d |-> 1]
Ratio(a, b) == [k |-> "num", n |-> a, d |-> b]
NaN == [k |-> "nan", n |-> 0, d |-> 1]
FloatError == [k |-> "err", n |-> 0, d |-> 1]

IsNum(x) == x.k = "num"
IsNaN(x) == x.k = "nan"

\* x > 0 and x <= 0 on floats: every comparison with NaN is False.
Gt0(x) == IsNum(x) /\ x.n > 0
Le0(x) == IsNum(x) /\ x.n <= 0

Timestamp(y, mo, dd, h) == [k |-> "ts", y |-> y, mo |-> mo, d |-> dd, h |-> h]
NaT == [k |-> "nat", y |-> 0, mo |-> 0, d |-> 0, h |-> 0]
TimeError == [k |-> "err", y |-> 0, mo |-> 0, d |-> 0, h |-> 0]

\* Timestamps, dates and months compare by these keys.
TsKey(t) == ((t.y * 12 + t.mo) * 31 + t.d) * 24 + t.h
DateOf(t) == IF t.k = "ts" THEN [k |-> "date", y |-> t.y, mo |-> t.mo, d |-> t.d]
             ELSE [k |-> "nat", y |-> 0, mo |-> 0, d |-> 0]
DateKey(x) == (x.y * 12 + x.mo) * 31 + x.d
PeriodOf(t) == IF t.k = "ts" THEN [k |-> "month", y |-> t.y, mo |-> t.mo]
               ELSE [k |-> "nat", y |-> 0, mo |-> 0]
PeriodKey(p) == p.y * 12 + p.mo

\* ---------------------------------------------------------------- text
Digits == <<"0", "1", "2", "3", "4", "5", "6", "7", "8", "9">>
IsDigit(c) == \E i \in 1..10 : Digits[i] = c
DigitVal(c) == (CHOOSE i \in 1..10 : Digits[i] = c) - 1

RECURSIVE RemoveChar(_, _)
\* str.replace(ch, '', regex=False): every occurrence of ch is removed.
RemoveChar(s, ch) ==
    IF s = <<>> THEN <<>>
    ELSE IF Head(s) = ch THEN RemoveChar(Tail(s), ch)
    ELSE <<Head(s)>> \o RemoveChar(Tail(s), ch)

RECURSIVE DigitsValue(_)
DigitsValue(s) == IF s = <<>> THEN 0
                  ELSE DigitsValue(SubSeq(s, 1, Len(s) - 1)) * 10 + DigitVal(s[Len(s)])

AllDigits(s) == \A i \in 1..Len(s) : IsDigit(s[i])

\* The fraction digits of a decimal text as a count of 10^-FracDigits units.
FracValue(s) ==
    LET padded == [i \in 1..FracDigits |-> IF i <= Len(s) THEN s[i] ELSE "0"]
    IN DigitsValue(padded)

\* Python's float() on the unsigned part of a text: digits, at most one '.',
\* at least one digit.  The texts of the model are written with digits, '.',
\* '-', '$' and ',' and carry at most FracDigits fraction digits; exponents,
\* blanks and 'inf', which float() also reads, do not occur in them.
UnsignedValue(s) ==
    LET dots == {i \in 1..Len(s) : s[i] = "."}
    IN IF dots = {}
       THEN IF s # <<>> /\ AllDigits(s) THEN Num(DigitsValue(s) * Scale) ELSE FloatError
       ELSE LET p == CHOOSE i \in dots : TRUE
                ip == SubSeq(s, 1, p - 1)
                fp == SubSeq(s, p + 1, Len(s))
            IN IF Cardinality(dots) = 1 /\ AllDigits(ip) /\ AllDigits(fp)
                  /\ Len(ip) + Len(fp) > 0 /\ Len(fp) <= FracDigits
               THEN Num(DigitsValue(ip) * Scale + FracValue(fp))
               ELSE FloatError

NanText == <<"n", "a", "n">>

\* .astype(float) on one text: float(text); 'nan' (any sign) is NaN.
astype_float(s) ==
    LET signed == s # <<>> /\ s[1] \in {"-", "+"}
        body == IF signed THEN Tail(s) ELSE s
        u == UnsignedValue(body)
    IN IF body = NanText THEN NaN
       ELSE IF IsNum(u) /\ signed /\ s[1] = "-" THEN Num(0 - u.n)
       ELSE u

\* ---------------------------------------------------------------- the file
\* Time texts of the model and the Timestamp pd.to_datetime gives for each.
TimeTable ==
    ("2024-01-01 09:00" :> Timestamp(2024, 1, 1, 9)) @@
    ("2024-01-01 10:00" :> Timestamp(2024, 1, 1, 10)) @@
    ("2024-01-01 15:00" :> Timestamp(2024, 1, 1, 15)) @@
    ("2024-01-02 10:00" :> Timestamp(2024, 1, 2, 10)) @@
    ("2024-02-01 10:00" :> Timestamp(2024, 2, 1, 10))

\* Symbols of the model, ranked as Python orders the strings.
SymbolRank == ("EURUSD" :> 1) @@ ("GBPUSD" :> 2) @@ ("USDJPY" :> 3)

Row(en, ex, p, sz, sy) ==
    [entry_time |-> en, exit_time |-> ex, pnl |-> p, size |-> sz, symbol |-> sy]

\* The rows a file of the model is made of: well-formed trades (with and without
\* '$' and ',', positive, negative and zero P&L, equal and different exit days),
\* rows with an empty cell, and rows with a text that is no number or no time.
RawRows ==
    { Row("2024-01-01 09:00", "2024-01-01 10:00", <<"$", "1", ".", "0", "0">>, 1, "EURUSD"),
      Row("2024-01-01 09:00", "2024-01-02 10:00", <<"$", "1", ".", "0", "0">>, 1, "GBPUSD"),
      Row("2024-01-01 09:00", "2024-01-02 10:00", <<"-", "$", "0", ".", "5", "0">>, 2, "EURUSD"),
      Row("2024-01-01 09:00", "2024-01-01 15:00", <<"2", ",", "0", "0", "0", ".", "5">>, 2, "GBPUSD"),
      Row("2024-01-01 09:00", "2024-02-01 10:00", <<"0">>, 1, "USDJPY"),
      Row("2024-01-01 09:00", "2024-01-02 10:00", <<>>, 1, "GBPUSD"),
      Row("2024-01-01 09:00", "", <<"$", "1", ".", "0", "0">>, 1, "GBPUSD"),
      Row("2024-01-01 09:00", "2024-01-01 10:00", <<"$">>, 1, "EURUSD"),
      Row("2024-01-01 09:00", "soon", <<"1">>, 1, "EURUSD") }

RECURSIVE SeqsUpTo(_, _)
SeqsUpTo(S, n) ==
    IF n = 0 THEN {<<>>}
    ELSE LET shorter == SeqsUpTo(S, n - 1)
         IN shorter \cup {Append(q, x) : q \in {r \in shorter : Len(r) = n - 1}, x \in S}

Files == SeqsUpTo(RawRows, MaxRows)

\* ---------------------------------------------------------------- load_data
\* pd.read_csv on one cell: an empty cell or the text nan is a missing value.
read_csv_time(text) == IF text = "" THEN None ELSE Some(text)
read_csv_pnl(text) == IF text \in {<<>>, NanText} THEN None ELSE Some(text)

\* pd.to_datetime on one cell: a missing value is NaT, a text that is no time raises.
to_datetime(cell) ==
    IF cell = None THEN NaT
    ELSE IF cell[1] \in DOMAIN TimeTable THEN TimeTable[cell[1]]
    ELSE TimeError

\* .astype(str) on one cell: the missing value NaN becomes the text 'nan'.
astype_str(cell) == IF cell = None THEN NanText ELSE cell[1]

\* The chain without its second replace: the ',' are left in the text.
CleanPnlDollarOnly(cell) == astype_float(RemoveChar(astype_str(cell), "$"))

\* The P&L chain of load_data on one cell.
CleanPnl(cell) == astype_float(RemoveChar(RemoveChar(astype_str(cell), "$"), ","))

CleanRow(r) ==
    [entry_time |-> to_datetime(read_csv_time(r.entry_time)),
     exit_time |-> to_datetime(read_csv_time(r.exit_time)),
     pnl |-> CleanPnl(read_csv_pnl(r.pnl)),
     size |-> r.size,
     symbol |-> r.symbol]

RowRaises(c) == c.entry_time.k = "err" \/ c.exit_time.k = "err" \/ c.pnl.k = "err"

\* load_data: every column is converted before self.df is assigned; a conversion
\* that raises leaves self.df as it was.
LoadOutcome(file, old) ==
    LET cleaned == [i \in 1..Len(file) |-> CleanRow(file[i])]
    IN IF \E i \in 1..Len(file) : RowRaises(cleaned[i])
       THEN [df |-> old, err |-> "load error"]
       ELSE [df |-> Some(cleaned), err |-> "none"]

load_data ==
    LET out == LoadOutcome(csv, df)
    IN /\ df' = out.df
       /\ err' = out.err
       /\ result' = None
       /\ last_op' = "load_data"
       /\ arg' = 0
       /\ UNCHANGED <<csv, amount>>

\* ---------------------------------------------------------------- pandas helpers
Indices(frame) == 1..Len(frame)

RECURSIVE SumOver(_, _)
\* Series.sum() with skipna: the sum of the values that are numbers, 0 for none.
SumOver(frame, I) ==
    IF I = {} THEN 0
    ELSE LET i == CHOOSE j \in I : TRUE
         IN (IF IsNum(frame[i].pnl) THEN frame[i].pnl.n ELSE 0) + SumOver(frame, I \ {i})

\* Series.count(): the values that are not NaN.
CountOver(frame, I) == Cardinality({i \in I : ~IsNaN(frame[i].pnl)})

\* Series.mean() with skipna: NaN when there is no number to average.
MeanOver(frame, I) ==
    IF CountOver(frame, I) = 0 THEN NaN
    ELSE Ratio(SumOver(frame, I), CountOver(frame, I))

RECURSIVE SortInts(_)
SortInts(S) ==
    IF S = {} THEN <<>>
    ELSE LET m == CHOOSE x \in S : \A y \in S : x <= y
         IN <<m>> \o SortInts(S \ {m})

RECURSIVE Orders(_)
\* The orders of the indices I as sequences without repetition.
Orders(I) ==
    IF I = {} THEN {<<>>}
    ELSE UNION {{<<i>> \o p : p \in Orders(I \ {i})} : i \in I}

\* The index orders sort_values may produce (pandas' nargsort with the default
\* kind='quicksort', which is not stable): the values that are not missing in
\* sorted order, equal keys in any order, then the missing ones in frame order.
nargsort(key, isna, ascending) ==
    LET n == Len(key)
        present == {i \in 1..n : ~isna[i]}
        missing == SortInts({i \in 1..n : isna[i]})
    IN {p \o missing : p \in
          {q \in Orders(present) :
             \A a \in 1..(Len(q) - 1) :
                IF ascending THEN key[q[a]] <= key[q[a + 1]]
                ELSE key[q[a]] >= key[q[a + 1]]}}

\* groupby(by): the group keys, one per value of by that is not missing, in
\* ascending order (sort=True, dropna=True).  by[i] is row i's key, rank[i] its
\* place in the order of the keys, isna[i] whether it is missing.
GroupKeys(by, rank, isna) ==
    LET present == {i \in 1..Len(by) : ~isna[i]}
        ranks == SortInts({rank[i] : i \in present})
    IN [a \in 1..Len(ranks) |-> by[CHOOSE i \in present : rank[i] = ranks[a]]]

\* The rows of one group.
Members(by, key) == {i \in 1..Len(by) : by[i] = key}

BySize(frame) == [i \in Indices(frame) |-> frame[i].size]
BySymbol(frame) == [i \in Indices(frame) |-> frame[i].symbol]
ByExitDate(frame) == [i \in Indices(frame) |-> DateOf(frame[i].exit_time)]
ByExitMonth(frame) == [i \in Indices(frame) |-> PeriodOf(frame[i].exit_time)]
ExitTimeMissing(frame) == [i \in Indices(frame) |-> frame[i].exit_time.k = "nat"]
NoneMissing(frame) == [i \in Indices(frame) |-> FALSE]

\* Series.head(n): the first n entries; all but the last |n| for a negative n.
head(s, n) ==
    IF n >= 0 THEN SubSeq(s, 1, IF n < Len(s) THEN n ELSE Len(s))
    ELSE SubSeq(s, 1, IF Len(s) + n > 0 THEN Len(s) + n ELSE 0)

\* A grouped-and-summed Series in one of the orders sort_values(ascending=False) gives.
Reordered(series, p) == [a \in 1..Len(series) |-> series[p[a]]]
\* sort_values() without ascending=False.
AscendingOrders(series) ==
    nargsort([a \in 1..Len(series) |-> series[a].total_pnl.n], NoneMissing(series), TRUE)

DescendingOrders(series) ==
    nargsort([a \in 1..Len(series) |-> series[a].total_pnl.n], NoneMissing(series), FALSE)

\* ---------------------------------------------------------------- the methods
NotLoaded == "ValueError: Data not loaded yet."

Raise(e) ==
    /\ err' = e
    /\ result' = None
    /\ UNCHANGED <<csv, df, amount>>

Return(v) ==
    /\ err' = "none"
    /\ result' = Some(v)
    /\ UNCHANGED <<csv, df, amount>>

\* print_summary: info(), head() and the missing values per column.
Summary(frame) ==
    [rows |-> Len(frame),
     missing_entry_time |-> Cardinality({i \in Indices(frame) : frame[i].entry_time.k = "nat"}),
     missing_exit_time |-> Cardinality({i \in Indices(frame) : frame[i].exit_time.k = "nat"}),
     missing_pnl |-> Cardinality({i \in Indices(frame) : IsNaN(frame[i].pnl)})]

print_summary ==
    /\ last_op' = "print_summary"
    /\ arg' = 0
    /\ IF df = None THEN Raise(NotLoaded) ELSE Return(Summary(df[1]))

\* print_stats: the six numbers it prints.
Stats(frame) ==
    LET total_trades == Len(frame)
        winning_trades == Cardinality({i \in Indices(frame) : Gt0(frame[i].pnl)})
        losing_trades == Cardinality({i \in Indices(frame) : Le0(frame[i].pnl)})
    IN [total |-> total_trades,
        wins |-> winning_trades,
        losses |-> losing_trades,
        win_rate |-> IF total_trades # 0
                     THEN Ratio(winning_trades * 100 * Scale, total_trades)
                     ELSE Num(0),
        total_pnl |-> Num(SumOver(frame, Indices(frame))),
        avg_pnl |-> MeanOver(frame, Indices(frame))]

\* print_stats without its check of self.df: len(None) raises a TypeError.
print_stats_unguarded ==
    /\ last_op' = "print_stats"
    /\ arg' = 0
    /\ IF df = None THEN Raise("TypeError: object of type 'NoneType' has no len()")
       ELSE Return(Stats(df[1]))

print_stats ==
    /\ last_op' = "print_stats"
    /\ arg' = 0
    /\ IF df = None THEN Raise(NotLoaded) ELSE Return(Stats(df[1]))

\* cumsum() over the sorted copy: NaN stays NaN and is skipped by the running sum.
Cumulative(frame, p) ==
    [a \in 1..Len(frame) |->
       [exit_time |-> frame[p[a]].exit_time,
        cumulative_pnl |-> IF IsNaN(frame[p[a]].pnl) THEN NaN
                           ELSE Num(SumOver(frame, {p[b] : b \in 1..a}))]]

ExitTimeOrders(frame) ==
    nargsort([i \in Indices(frame) |-> TsKey(frame[i].exit_time)], ExitTimeMissing(frame), TRUE)

\* plot_cumulative_pnl: what it plots, computed on a sorted copy of self.df.
plot_cumulative_pnl ==
    /\ last_op' = "plot_cumulative_pnl"
    /\ arg' = 0
    /\ IF df = None THEN Raise(NotLoaded)
       ELSE \E p \in ExitTimeOrders(df[1]) : Return(Cumulative(df[1], p))

SizeSummary(frame) ==
    LET keys == GroupKeys(BySize(frame), BySize(frame), NoneMissing(frame))
    IN [a \in 1..Len(keys) |->
          [size |-> keys[a],
           Average_PnL |-> MeanOver(frame, Members(BySize(frame), keys[a])),
           Total_Trades |-> CountOver(frame, Members(BySize(frame), keys[a]))]]

trade_size_summary ==
    /\ last_op' = "trade_size_summary"
    /\ arg' = 0
    /\ IF df = None THEN Raise(NotLoaded) ELSE Return(SizeSummary(df[1]))

MonthlySummary(frame) ==
    LET keys == GroupKeys(ByExitMonth(frame),
                          [i \in Indices(frame) |-> PeriodKey(ByExitMonth(frame)[i])],
                          ExitTimeMissing(frame))
    IN [a \in 1..Len(keys) |->
          LET I == Members(ByExitMonth(frame), keys[a])
          IN [month |-> keys[a],
              Total_PnL |-> Num(SumOver(frame, I)),
              Average_PnL |-> MeanOver(frame, I),
              Trades_Count |-> CountOver(frame, I),
              Win_Rate |-> Ratio(Cardinality({i \in I : Gt0(frame[i].pnl)}) * 100 * Scale,
                                 Cardinality(I))]]

monthly_performance_summary ==
    /\ last_op' = "monthly_performance_summary"
    /\ arg' = 0
    /\ IF df = None THEN Raise(NotLoaded) ELSE Return(MonthlySummary(df[1]))

\* plot_monthly_pnl: the bars it draws; the summary it calls raises when not loaded.
MonthlyBars(frame) ==
    LET m == MonthlySummary(frame)
    IN [a \in 1..Len(m) |-> [month |-> m[a].month, Total_PnL |-> m[a].Total_PnL]]

plot_monthly_pnl ==
    /\ last_op' = "plot_monthly_pnl"
    /\ arg' = 0
    /\ IF df = None THEN Raise(NotLoaded) ELSE Return(MonthlyBars(df[1]))

\* The date written over the Exit Time column as well (its time of day lost).
WithExitDateOverExitTime(frame) ==
    [i \in Indices(frame) |->
       [entry_time |-> frame[i].entry_time,
        exit_time |-> IF frame[i].exit_time.k = "ts"
                      THEN Timestamp(frame[i].exit_time.y, frame[i].exit_time.mo,
                                     frame[i].exit_time.d, 0)
                      ELSE frame[i].exit_time,
        pnl |-> frame[i].pnl,
        size |-> frame[i].size,
        symbol |-> frame[i].symbol,
        exit_date |-> DateOf(frame[i].exit_time)]]

\* self.df['Exit Date'] = self.df['Exit Time'].dt.date
WithExitDate(frame) ==
    [i \in Indices(frame) |->
       [entry_time |-> frame[i].entry_time,
        exit_time |-> frame[i].exit_time,
        pnl |-> frame[i].pnl,
        size |-> frame[i].size,
        symbol |-> frame[i].symbol,
        exit_date |-> DateOf(frame[i].exit_time)]]

DailyPerformance(frame) ==
    LET keys == GroupKeys(ByExitDate(frame),
                          [i \in Indices(frame) |-> DateKey(ByExitDate(frame)[i])],
                          ExitTimeMissing(frame))
    IN [a \in 1..Len(keys) |->
          [date |-> keys[a],
           total_pnl |-> Num(SumOver(frame, Members(ByExitDate(frame), keys[a])))]]

\* best_performing_days: adds the Exit Date column to self.df, then groups,
\* sorts descending and takes the head.
best_performing_days(top_n) ==
    /\ last_op' = "best_performing_days"
    /\ arg' = top_n
    /\ IF df = None THEN Raise(NotLoaded)
       ELSE LET daily == DailyPerformance(df[1])
            IN \E p \in DescendingOrders(daily) :
                  /\ df' = Some(WithExitDate(df[1]))
                  /\ err' = "none"
                  /\ result' = Some(head(Reordered(daily, p), top_n))
                  /\ UNCHANGED <<csv, amount>>

PairTotals(frame) ==
    LET keys == GroupKeys(BySymbol(frame),
                          [i \in Indices(frame) |-> SymbolRank[frame[i].symbol]],
                          NoneMissing(frame))
    IN [a \in 1..Len(keys) |->
          [symbol |-> keys[a],
           total_pnl |-> Num(SumOver(frame, Members(BySymbol(frame), keys[a])))]]

most_profitable_pairs ==
    /\ last_op' = "most_profitable_pairs"
    /\ arg' = 0
    /\ IF df = None THEN Raise(NotLoaded)
       ELSE LET totals == PairTotals(df[1])
            IN \E p \in DescendingOrders(totals) : Return(Reordered(totals, p))

\* ---------------------------------------------------------------- the system
DefaultTopN == 5

TopNs == (1..MaxTopN) \cup {DefaultTopN}

\* After TradeJournal(csv_path): self.df is None.  The file holds any content
\* of Files and is not rewritten while the journal lives (one batch run).
Init ==
    /\ csv \in Files
    /\ df = None
    /\ err = "none"
    /\ result = None
    /\ last_op = "__init__"
    /\ arg = 0
    /\ amount = 0

Next ==
    \/ load_data
    \/ print_summary
    \/ print_stats
    \/ plot_cumulative_pnl
    \/ trade_size_summary
    \/ monthly_performance_summary
    \/ plot_monthly_pnl
    \/ \E top_n \in TopNs : best_performing_days(top_n)
    \/ most_profitable_pairs

Spec == Init /\ [][Next]_vars

\* ---------------------------------------------------------------- round-trip inputs
\* The amount texts the round-trip property is about: "$" and the amount written
\* with ',' between groups of three digits (Python's f"${v:,.2f}"), and the same
\* amount written with neither.
RECURSIVE DigitsOf(_)
DigitsOf(n) == IF n < 10 THEN <<Digits[n + 1]>>
               ELSE DigitsOf(n \div 10) \o <<Digits[(n % 10) + 1]>>

RECURSIVE group_with_commas(_)
group_with_commas(ds) ==
    IF Len(ds) <= 3 THEN ds
    ELSE group_with_commas(SubSeq(ds, 1, Len(ds) - 3)) \o <<",">> \o SubSeq(ds, Len(ds) - 2, Len(ds))

FracText(f) == [i \in 1..FracDigits |-> Digits[((f \div Pow10(FracDigits - i)) % 10) + 1]]

Abs(v) == IF v < 0 THEN 0 - v ELSE v
SignText(v) == IF v < 0 THEN <<"-">> ELSE <<>>

FormatAmount(v) ==
    <<"$">> \o SignText(v) \o group_with_commas(DigitsOf(Abs(v) \div Scale))
            \o <<".">> \o FracText(Abs(v) % Scale)

PlainAmount(v) ==
    SignText(v) \o DigitsOf(Abs(v) \div Scale) \o <<".">> \o FracText(Abs(v) % Scale)

\* Whole amounts up to MaxDollars and one with two separators; a few fractions.
Dollars == (0..MaxDollars) \cup {MaxDollars * 1000 + 234}
Fracs == {0, 5, Scale - 1}
Amounts == {sg * (dl * Scale + f) : sg \in {1, -1}, dl \in Dollars, f \in Fracs}

\* After TradeJournal(csv_path) on a file of one trade whose P&L text is an amount
\* of Amounts, formatted or plain.
InitRoundTrip ==
    /\ amount \in Amounts
    /\ \E text \in {FormatAmount(amount), PlainAmount(amount)} :
          csv = <<Row("2024-01-01 09:00", "2024-01-01 10:00", text, 1, "EURUSD")>>
    /\ df = None
    /\ err = "none"
    /\ result = None
    /\ last_op = "__init__"
    /\ arg = 0

\* The round trip exercises the load and the statistics of what it loaded.
NextRoundTrip == load_data \/ print_stats

SpecRoundTrip == InitRoundTrip /\ [][NextRoundTrip]_vars

\* ---------------------------------------------------------------- claims
ReportOps ==
    {"print_summary", "print_stats", "plot_cumulative_pnl", "trade_size_summary",
     "monthly_performance_summary", "plot_monthly_pnl", "best_performing_days",
     "most_profitable_pairs"}

Returned(op) == last_op = op /\ err = "none"

\* C1: a reporting or aggregation method called while self.df is None (no load has
\* succeeded yet) raises the not-loaded error, returns nothing and leaves self.df None.
C1_NotLoadedRaises ==
    [][(df = None /\ last_op' \in ReportOps)
          => (err' = NotLoaded /\ result' = None /\ df' = None)]_vars

\* C1 witness: best_performing_days has raised on a journal that holds no frame
\* and whose file has a row load_data cannot convert.
C1_Witness ==
    /\ df = None
    /\ last_op = "best_performing_days"
    /\ err = NotLoaded
    /\ \E i \in 1..Len(csv) : RowRaises(CleanRow(csv[i]))

\* A time text that is no timestamp, and a P&L text that is no number once '$'
\* and ',' are removed.
NotATimestamp(text) == text \notin DOMAIN TimeTable
CleanedText(text) == RemoveChar(RemoveChar(text, "$"), ",")
IsDecimalText(t) ==
    LET body == IF t # <<>> /\ t[1] \in {"-", "+"} THEN Tail(t) ELSE t
        dots == {i \in 1..Len(body) : body[i] = "."}
    IN /\ Cardinality(dots) <= 1
       /\ \E i \in 1..Len(body) : IsDigit(body[i])
       /\ \A i \in 1..Len(body) : IsDigit(body[i]) \/ body[i] = "."
DefectiveRow(r) ==
    \/ NotATimestamp(r.entry_time)
    \/ NotATimestamp(r.exit_time)
    \/ ~IsDecimalText(CleanedText(r.pnl))

\* C2: a load of a file with a row whose Entry Time or Exit Time is no timestamp,
\* or whose P&L is not numeric after removing '$' and ',', fails with a load
\* error and leaves self.df as it was (None: the file never loaded before).
C2_LoadAllOrNothing ==
    (last_op = "load_data" /\ \E i \in 1..Len(csv) : DefectiveRow(csv[i]))
        => (err = "load error" /\ df = None)

CoreColumns == {"entry_time", "exit_time", "pnl", "size", "symbol"}
CoreOf(frame) == [i \in 1..Len(frame) |-> [c \in CoreColumns |-> frame[i][c]]]
HasExitDate(frame) == \E i \in 1..Len(frame) : "exit_date" \in DOMAIN frame[i]

\* C3: once loaded, whatever methods are called, self.df holds the rows of the
\* load in their order with the same entry_time, exit_time, pnl, size and symbol;
\* the only other column a row may have is exit_date, the date of its exit_time.
C3_FrameUnchanged ==
    df # None =>
        /\ CoreOf(df[1]) = LoadOutcome(csv, None).df[1]
        /\ \A i \in 1..Len(df[1]) :
              \/ DOMAIN df[1][i] = CoreColumns
              \/ /\ DOMAIN df[1][i] = CoreColumns \cup {"exit_date"}
                 /\ df[1][i].exit_date = DateOf(df[1][i].exit_time)

\* C3 witness: an aggregation called after best_performing_days added exit_date
\* to a frame of several rows loaded out of exit-time order.
C3_Witness ==
    /\ df # None
    /\ Returned("plot_cumulative_pnl")
    /\ Len(df[1]) >= 2
    /\ HasExitDate(df[1])
    /\ df[1][1].exit_time.k = "ts" /\ df[1][2].exit_time.k = "ts"
    /\ TsKey(df[1][1].exit_time) > TsKey(df[1][2].exit_time)

\* C4: on a loaded frame of no rows print_stats gives total 0, wins 0, losses 0,
\* win rate 0.0, total P&L 0.0 and average P&L 0.0.
C4_EmptyStatsAreZero ==
    (Returned("print_stats") /\ df = Some(<<>>))
        => result[1] = [total |-> 0, wins |-> 0, losses |-> 0, win_rate |-> Num(0),
                        total_pnl |-> Num(0), avg_pnl |-> Num(0)]

\* C5: for every frame load_data produces, print_stats counts wins + losses = total.
C5_WinsPlusLossesIsTotal ==
    Returned("print_stats") =>
        /\ result[1].total = Len(df[1])
        /\ result[1].wins + result[1].losses = result[1].total

\* C6: the cumulative series lists every row once in non-decreasing exit_time
\* order, each value being the sum of the P&L up to and including its row, so
\* that the last value is the total P&L print_stats reports.
C6_CumulativeSeries ==
    (Returned("plot_cumulative_pnl") /\ df[1] # <<>>) =>
        LET frame == df[1]
            series == result[1]
        IN /\ \E p \in Orders(Indices(frame)) :
                 \A a \in 1..Len(frame) :
                    /\ series[a].exit_time = frame[p[a]].exit_time
                    /\ series[a].cumulative_pnl = Num(SumOver(frame, {p[b] : b \in 1..a}))
           /\ \A a \in 1..(Len(series) - 1) :
                 (series[a].exit_time.k = "ts" /\ series[a + 1].exit_time.k = "ts")
                    => TsKey(series[a].exit_time) <= TsKey(series[a + 1].exit_time)
           /\ series[Len(series)].cumulative_pnl = Stats(frame).total_pnl

SymbolsOf(frame) == {frame[i].symbol : i \in 1..Len(frame)}
FirstSeen(frame, sy) == CHOOSE i \in 1..Len(frame) :
                           frame[i].symbol = sy /\ \A j \in 1..(i - 1) : frame[j].symbol # sy

\* C7: most_profitable_pairs returns one entry per distinct symbol, none left out
\* and none twice, each with the sum of the P&L of the rows of that symbol (the
\* numbers among them), in an order in which the total never increases.
C7_PairRanking ==
    Returned("most_profitable_pairs") =>
        LET frame == df[1]
            ranking == result[1]
        IN /\ {ranking[a].symbol : a \in 1..Len(ranking)} = SymbolsOf(frame)
           /\ Len(ranking) = Cardinality(SymbolsOf(frame))
           /\ \A a \in 1..Len(ranking) :
                 ranking[a].total_pnl =
                    Num(SumOver(frame, {i \in 1..Len(frame) : frame[i].symbol = ranking[a].symbol}))
           /\ \A a \in 1..(Len(ranking) - 1) :
                 ranking[a].total_pnl.n >= ranking[a + 1].total_pnl.n

\* C7 witness: a ranking of two symbols with different totals, one of them the
\* sum of two rows, returned for a frame whose first row is the lesser symbol's.
C7_Witness ==
    /\ Returned("most_profitable_pairs")
    /\ Len(result[1]) = 2
    /\ Len(df[1]) = 3
    /\ result[1][1].total_pnl.n > result[1][2].total_pnl.n
    /\ df[1][1].symbol = result[1][2].symbol
    /\ \A i \in 1..3 : IsNum(df[1][i].pnl) /\ df[1][i].pnl.n # 0

\* The ranking in which entries of equal total keep the order groupby gave them:
\* what sort_values returns whenever its sort happens to be stable.
KeepsGroupOrder(ranking) ==
    \A a, b \in 1..Len(ranking) :
       (a < b /\ ranking[a].total_pnl = ranking[b].total_pnl)
          => SymbolRank[ranking[a].symbol] < SymbolRank[ranking[b].symbol]

\* C8: in the ranking, symbols of equal total appear in the order in which they
\* are first seen in the frame.  Stated of the frames whose P&L are all numbers
\* and of the rankings that keep groupby's order among equal totals, so that a
\* violation rests neither on a missing P&L nor on an unstable sort.
C8_TiesInFirstSeenOrder ==
    (/\ Returned("most_profitable_pairs")
     /\ \A i \in 1..Len(df[1]) : IsNum(df[1][i].pnl)
     /\ KeepsGroupOrder(result[1])) =>
        \A a, b \in 1..Len(result[1]) :
           (a < b /\ result[1][a].total_pnl = result[1][b].total_pnl)
              => FirstSeen(df[1], result[1][a].symbol) < FirstSeen(df[1], result[1][b].symbol)

DatesOf(frame) == {DateOf(frame[i].exit_time) : i \in 1..Len(frame)} \ {DateOf(NaT)}
Min(a, b) == IF a < b THEN a ELSE b

C10_CleanupRoundTrip ==
    last_op = "load_data" =>
        /\ err = "none"
        /\ df # None
        /\ df[1][1].pnl = Num(amount)
        /\ Stats(df[1]).total_pnl = Num(amount)

\* C10 witness: a negative amount with two separators in its text has been loaded.
C10_Witness ==
    /\ last_op = "load_data"
    /\ df # None
    /\ amount < 0
    /\ Cardinality({i \in 1..Len(csv[1].pnl) : csv[1].pnl[i] = ","}) = 2
    /\ csv[1].pnl[1] = "$"
    /\ df[1][1].pnl = Num(amount)
====
